---- MODULE Spec2Model ----
(***************************************************************************)
(* Verification model of the Wikipedia Scraper API (main.py) and of its    *)
(* client (example_usage.py).  Text is modelled as sequences of one-char   *)
(* strings so that the regular expressions of the code are computed, not   *)
(* assumed.                                                                *)
(***************************************************************************)
EXTENDS Integers, Sequences, FiniteSets, TLC

\* ------------------------------------------------------------------ bounds
\* pieces concatenated into an input of clean_text
MaxPieces == 4

\* top-level nodes of the content region of a served page
MaxNodes == 2

\* URLs handed to scrape_multiple_pages
MaxUrls == 3

\* ------------------------------------------------------- program constants
\* a summary paragraph must be longer than this (len(text) > 50)
SummaryMinLen == 50

\* the summary looks at paragraphs[:3]
SummaryParagraphs == 3

\* Python's None and a value that is present: an Optional is <<>> or <<x>>
None == <<>>

Some(x) == <<x>>

\* a local that has not been assigned yet

Unbound == "unbound"

\* ------------------------------------------------------------ text helpers
Digits == {"0", "1", "2", "3", "4", "5", "6", "7", "8", "9"}

\* what Python's \s and str.strip() treat as whitespace (the part used here)
Whitespace == {" ", "\n", "\t"}

IsSpace(c) == c \in Whitespace

IsDigit(c) == c \in Digits

StartsWith(s, p) == Len(s) >= Len(p) /\ SubSeq(s, 1, Len(p)) = p

RECURSIVE Flatten(_)
Flatten(ss) == IF ss = <<>> THEN <<>> ELSE Head(ss) \o Flatten(Tail(ss))

RECURSIVE LStrip(_)
LStrip(s) == IF s # <<>> /\ IsSpace(Head(s)) THEN LStrip(Tail(s)) ELSE s

RECURSIVE RStrip(_)
RStrip(s) ==
  IF s # <<>> /\ IsSpace(s[Len(s)]) THEN RStrip(SubSeq(s, 1, Len(s) - 1)) ELSE s

\* str.strip()
strip(s) == RStrip(LStrip(s))

\* re.sub(r'\s+', ' ', s): every maximal run of whitespace becomes one space
RECURSIVE SubWhitespace(_)
SubWhitespace(s) ==
  IF s = <<>> THEN <<>>
  ELSE IF IsSpace(Head(s)) THEN <<" ">> \o SubWhitespace(LStrip(Tail(s)))
  ELSE <<Head(s)>> \o SubWhitespace(Tail(s))

\* length of the leading run of digits of s
RECURSIVE DigitRun(_)
DigitRun(s) ==
  IF s # <<>> /\ IsDigit(Head(s)) THEN 1 + DigitRun(Tail(s)) ELSE 0

\* does a match of \[\d+\] start at the head of s?  (\d+ is greedy and the
\* next pattern char is not a digit, so the match is unique)
CitationAt(s) ==
  /\ s # <<>>
  /\ Head(s) = "["
  /\ LET n == DigitRun(Tail(s))
     IN  n >= 1 /\ Len(s) >= n + 2 /\ s[n + 2] = "]"

CitationLen(s) == DigitRun(Tail(s)) + 2

\* re.sub(r'\[\d+\]', '', s): one left-to-right pass over non-overlapping
\* matches; the text produced by a removal is not scanned again
RECURSIVE SubCitation(_)
SubCitation(s) ==
  IF s = <<>> THEN <<>>
  ELSE IF CitationAt(s) THEN SubCitation(SubSeq(s, CitationLen(s) + 1, Len(s)))
  ELSE <<Head(s)>> \o SubCitation(Tail(s))

EditMarker == <<"[", "e", "d", "i", "t", "]">>

\* re.sub(r'\[edit\]', '', s)
RECURSIVE SubEdit(_)
SubEdit(s) ==
  IF s = <<>> THEN <<>>
  ELSE IF StartsWith(s, EditMarker) THEN SubEdit(SubSeq(s, Len(EditMarker) + 1, Len(s)))
  ELSE <<Head(s)>> \o SubEdit(Tail(s))

\* clean_text(text)
clean_text(text) ==
  IF text = <<>> THEN <<>>
  ELSE SubEdit(SubCitation(SubWhitespace(strip(text))))

\* '\n\n'.join(parts)
RECURSIVE Join(_)
Join(parts) ==
  IF parts = <<>> THEN <<>>
  ELSE IF Len(parts) = 1 THEN Head(parts)
  ELSE Head(parts) \o <<"\n", "\n">> \o Join(Tail(parts))

\* xs[:n]
Take(xs, n) == SubSeq(xs, 1, IF Len(xs) < n THEN Len(xs) ELSE n)

\* ------------------------------------------------------------ URL pattern
LowerLetters ==
  {"a", "b", "c", "d", "e", "f", "g", "h", "i", "j", "k", "l", "m",
   "n", "o", "p", "q", "r", "s", "t", "u", "v", "w", "x", "y", "z"}

RECURSIVE LowerRun(_)
LowerRun(s) ==
  IF s # <<>> /\ Head(s) \in LowerLetters THEN 1 + LowerRun(Tail(s)) ELSE 0

Drop(s, n) == SubSeq(s, n + 1, Len(s))

SchemeHttp == <<"h", "t", "t", "p">>

SchemeSep == <<":", "/", "/">>

WikipediaHostPath ==
  <<".", "w", "i", "k", "i", "p", "e", "d", "i", "a", ".", "o", "r", "g",
    "/", "w", "i", "k", "i", "/">>

\* re.match(r'https?://[a-z]+\.wikipedia\.org/wiki/', url): anchored at the
\* start of url, a prefix match
MatchesWikipediaUrl(url) ==
  /\ StartsWith(url, SchemeHttp)
  /\ LET a == Drop(url, Len(SchemeHttp))
         b == IF a # <<>> /\ Head(a) = "s" /\ ~StartsWith(a, SchemeSep)
              THEN Tail(a) ELSE a
     IN  /\ StartsWith(b, SchemeSep)
         /\ LET c == Drop(b, Len(SchemeSep))
                n == LowerRun(c)
            IN  n >= 1 /\ StartsWith(Drop(c, n), WikipediaHostPath)

U_https == <<"h", "t", "t", "p", "s", ":", "/", "/">>

U_http == <<"h", "t", "t", "p", ":", "/", "/">>

U_ftp == <<"f", "t", "p", ":", "/", "/">>

U_wp == <<".", "w", "i", "k", "i", "p", "e", "d", "i", "a", ".", "o", "r", "g">>

U_ex == <<".", "e", "x", "a", "m", "p", "l", "e", ".", "o", "r", "g">>

U_wiki == <<"/", "w", "i", "k", "i", "/", "A">>

U_w == <<"/", "w", "/", "A">>

\* URLs a caller may pass: two article URLs and malformed ones
GoodUrls ==
  { U_https \o <<"e", "n">> \o U_wp \o U_wiki,
    U_http \o <<"d", "e">> \o U_wp \o U_wiki }

BadUrls ==
  { U_https \o <<"E", "N">> \o U_wp \o U_wiki,
    U_https \o U_wp \o U_wiki,
    U_https \o <<"e", "n">> \o U_wp \o U_w,
    U_https \o <<"e", "n">> \o U_ex \o U_wiki,
    U_ftp \o <<"e", "n">> \o U_wp \o U_wiki,
    <<"x">> \o U_https \o <<"e", "n">> \o U_wp \o U_wiki,
    <<>> }

Urls == GoodUrls \cup BadUrls

\* ------------------------------------------------------- the parsed tree
\* A node of the BeautifulSoup tree.  Elements of the content region are
\* kept in document order; an element's children are its kids, in order.
\* A "#text" node carries text only.  href/src are None when the attribute
\* is absent.  rows/caption describe a table element.
Node(tag, txt, href, src, kids) ==
  [tag |-> tag, text |-> txt, href |-> href, src |-> src, kids |-> kids,
   caption |-> None, rows |-> <<>>]

Txt(t) == Node("#text", t, None, None, <<>>)

Anchor(href, t) == Node("a", t, Some(href), None, <<>>)

Img(src) == Node("img", <<>>, None, Some(src), <<>>)

Elem(tag, kids) == Node(tag, <<>>, None, None, kids)

\* a table cell: th or td, its text and its span attributes
Cell(th, t, colspan, rowspan) ==
  [th |-> th, text |-> t, colspan |-> colspan, rowspan |-> rowspan]

Table(caption, rows, kids) ==
  [Elem("table", kids) EXCEPT !.caption = Some(caption), !.rows = rows]

\* Tag.get_text(): the text of the node and of everything below it
get_text(n) == n.text \o Flatten([k \in 1..Len(n.kids) |-> n.kids[k].text])

\* the elements of a region in document order (each node, then its kids)
Descendants(region) ==
  Flatten([k \in 1..Len(region) |-> <<region[k]>> \o region[k].kids])

\* Tag.find_all([tags...])
find_all(region, tags) ==
  SelectSeq(Descendants(region), LAMBDA n : n.tag \in tags)

Unwanted == {"script", "style", "sup", "nav", "table"}

\* for unwanted in content_div.find_all([...]): unwanted.decompose()
\* -- every unwanted element leaves the tree together with what is below it
DecomposeAll(region, tags) ==
  LET top == SelectSeq(region, LAMBDA n : n.tag \notin tags)
  IN  [k \in 1..Len(top) |->
         [top[k] EXCEPT !.kids = SelectSeq(@, LAMBDA c : c.tag \notin tags)]]

\* ---------------------------------------------------------- served pages
HrefB == <<"/", "w", "i", "k", "i", "/", "B">>

HrefT == <<"/", "w", "i", "k", "i", "/", "T">>

HrefC == <<"/", "w", "i", "k", "i", "/", "C">>

HrefS == <<"/", "w", "i", "k", "i", "/", "S", "p", "e", "c", "i", "a", "l", ":", "S">>

HrefX == <<"h", "t", "t", "p", "s", ":", "/", "/", "x", ".", "o", "r", "g", "/">>

SrcPR == <<"/", "/", "u", ".", "o", "r", "g", "/", "i">>

SrcRoot == <<"/", "s", "/", "i">>

SrcData == <<"d", "a", "t", "a", ":", "i">>

SrcAbs == <<"h", "t", "t", "p", "s", ":", "/", "/", "u", ".", "o", "r", "g", "/", "i">>

\* a paragraph longer than the summary threshold, with a reference
\* superscript and an article link
PLong ==
  Elem("p", << Txt([k \in 1..(SummaryMinLen + 2) |-> "a"]),
               Node("sup", <<"[", "1", "]">>, None, None, <<>>),
               Txt(<<" ">>),
               Anchor(HrefB, <<"B">>) >>)

\* a short paragraph with a citation marker typed as plain text
PShort == Elem("p", << Txt(<<"b", " ", "[", "1", "]", " ", "c">>) >>)

\* a paragraph whose whole text is a citation marker
PCite == Elem("p", << Txt(<<"[", "1", "]">>) >>)

\* a table: caption, a header row, a full row and a row missing its last
\* cell; one cell holds an article link and one holds a paragraph
Tbl ==
  Table(<<"S", "t", "a", "t", "s">>,
        << << Cell(TRUE, <<"h", "1">>, 1, 1), Cell(TRUE, <<"h", "2">>, 1, 1) >>,
           << Cell(FALSE, <<"x">>, 1, 1), Cell(FALSE, <<"y">>, 1, 1) >>,
           << Cell(FALSE, <<"z">>, 1, 1) >> >>,
        << Anchor(HrefT, <<"x">>), Node("p", <<"y">>, None, None, <<>>) >>)

\* a box holding a paragraph of whitespace only and anchors and images of
\* every shape the extractors tell apart
Box ==
  Elem("div", << Node("p", <<" ", "\n">>, None, None, <<>>),
                 Anchor(HrefC, <<"C">>), Anchor(HrefS, <<"S">>),
                 Anchor(HrefX, <<"X">>), Node("a", <<"n">>, None, None, <<>>),
                 Img(SrcPR), Img(SrcRoot), Img(SrcData), Img(SrcAbs),
                 Elem("img", <<>>), Img(<<>>) >>)

\* three empty paragraphs in a row, as pages carry before their lead
Blanks ==
  Elem("div", << Node("p", <<"\n">>, None, None, <<>>),
                 Node("p", <<>>, None, None, <<>>),
                 Node("p", <<" ">>, None, None, <<>>) >>)

NodeKinds == {PLong, PShort, PCite, Tbl, Box, Blanks}

\* the children of div#mw-content-text
Regions == UNION { [1..n -> NodeKinds] : n \in 0..MaxNodes }

\* h1#firstHeading: absent, or its raw text
Titles == { None, Some(<<" ", "T", "[", "1", "]", "\n">>) }

\* the document around the content region: a fragment without an html
\* element, an html element without lang and without the marker elements
\* of the metadata step, or an html element with lang and the markers
Heads ==
  { [has_html |-> FALSE, lang |-> None,
     lastmod |-> None, page_id |-> None, categories |-> <<>>],
    [has_html |-> TRUE, lang |-> None,
     lastmod |-> None, page_id |-> None, categories |-> <<>>],
    [has_html |-> TRUE, lang |-> Some(<<"d", "e">>),
     lastmod |-> Some(<<" ", "e", "d", " ", "[", "2", "]">>),
     page_id |-> Some(<<"4", "2">>),
     categories |-> << <<"K", "[", "e", "d", "i", "t", "]">>, <<"L">> >>] }

\* a parsed document; body is None when div#mw-content-text is absent
Docs ==
  { [title |-> t, has_html |-> h.has_html, lang |-> h.lang,
     lastmod |-> h.lastmod, page_id |-> h.page_id, categories |-> h.categories,
     body |-> b] :
    t \in Titles, h \in Heads,
    b \in {None} \cup { Some(r) : r \in Regions } }

\* what the network returns for the URL: a page, or a failure of
\* requests.get / raise_for_status
Web ==
  { [status |-> "ok", doc |-> Some(d)] : d \in Docs }
    \cup { [status |-> "timeout", doc |-> None],
           [status |-> "http_error", doc |-> None] }

Requests ==
  [url : Urls, include_metadata : BOOLEAN, include_links : BOOLEAN,
   include_images : BOOLEAN, include_tables : BOOLEAN]

\* ------------------------------------------------------------ the state
VARIABLES
  request,      \* the JSON body posted to /scrape
  web,          \* what requests.get obtained for request.url
  pc,           \* position inside extract_wikipedia_content
  http_gets,    \* number of HTTP requests issued by the run
  soup,         \* the parsed tree
  title, content_div, content, summary, metadata, links, images,
  outcome,      \* the WikipediaResponse returned or the HTTPException raised
  prev,         \* the previous request of the same client and its outcome
  text, cleaned, recleaned, clean_pc,
  urls, server, results, batch_pc

runVars ==
  <<request, web, pc, http_gets, soup, title, content_div, content, summary,
    metadata, links, images, outcome, prev>>

cleanVars == <<text, cleaned, recleaned, clean_pc>>

batchVars == <<urls, server, results, batch_pc>>

vars == <<runVars, cleanVars, batchVars>>

locals == <<soup, title, content_div, content, summary, metadata, links, images>>

\* ------------------------------------------------- the extraction steps
UnknownTitle == <<"U", "n", "k", "n", "o", "w", "n", " ", "T", "i", "t", "l", "e">>

Unknown == <<"u", "n", "k", "n", "o", "w", "n">>

WikiPrefix == <<"/", "w", "i", "k", "i", "/">>

SpecialPrefix == WikiPrefix \o <<"S", "p", "e", "c", "i", "a", "l", ":">>

EnOrigin ==
  <<"h", "t", "t", "p", "s", ":", "/", "/", "e", "n", ".", "w", "i", "k", "i",
    "p", "e", "d", "i", "a", ".", "o", "r", "g">>

HttpsColon == <<"h", "t", "t", "p", "s", ":">>

DataPrefix == <<"d", "a", "t", "a", ":">>

\* title = clean_text(title_elem.get_text()) if title_elem else "Unknown Title"
TitleOf(doc) ==
  IF doc.title # None THEN clean_text(doc.title[1]) ELSE UnknownTitle

\* content = '\n\n'.join([clean_text(p.get_text()) for p in paragraphs
\*                        if p.get_text().strip()])
ContentOf(paragraphs) ==
  LET kept == SelectSeq(paragraphs, LAMBDA p : strip(get_text(p)) # <<>>)
  IN  Join([k \in 1..Len(kept) |-> clean_text(get_text(kept[k]))])

\* faulty variant: the length test of the summary loop is missing
SummaryOfUnfiltered(paragraphs) ==
  LET first == Take(paragraphs, SummaryParagraphs)
  IN  Join([k \in 1..Len(first) |-> clean_text(get_text(first[k]))])

\* the texts of paragraphs[:3] that are longer than 50 characters, joined
SummaryOf(paragraphs) ==
  LET first == Take(paragraphs, SummaryParagraphs)
      texts == [k \in 1..Len(first) |-> clean_text(get_text(first[k]))]
  IN  Join(SelectSeq(texts, LAMBDA t : Len(t) > SummaryMinLen))

\* the metadata dict; soup.find('html', {}) is known to be an element here
MetadataOf(doc) ==
  [language |-> IF doc.lang # None THEN doc.lang[1] ELSE Unknown,
   last_modified |->
     IF doc.lastmod # None THEN Some(clean_text(doc.lastmod[1])) ELSE None,
   page_id |-> doc.page_id,
   categories |-> [k \in 1..Len(doc.categories) |-> clean_text(doc.categories[k])]]

\* the links list of the content region
LinksOf(region) ==
  LET link_elements ==
        SelectSeq(find_all(region, {"a"}), LAMBDA a : a.href # None)
      wanted ==
        SelectSeq(link_elements,
                    LAMBDA a : StartsWith(a.href[1], WikiPrefix)
                               /\ ~StartsWith(a.href[1], SpecialPrefix))
  IN  [k \in 1..Len(wanted) |-> EnOrigin \o wanted[k].href[1]]

\* one image URL: protocol-relative, root-relative or as it is
ImageUrl(src) ==
  IF StartsWith(src, <<"/", "/">>) THEN HttpsColon \o src
  ELSE IF StartsWith(src, <<"/">>) THEN EnOrigin \o src
  ELSE src

\* the images list of the content region
ImagesOf(region) ==
  LET img_elements == find_all(region, {"img"})
      wanted ==
        SelectSeq(img_elements,
                    LAMBDA g : g.src # None /\ g.src[1] # <<>>
                               /\ ~StartsWith(g.src[1], DataPrefix))
  IN  [k \in 1..Len(wanted) |-> ImageUrl(wanted[k].src[1])]

\* the three except clauses of extract_wikipedia_content; the endpoint
\* scrape_wikipedia re-raises an HTTPException unchanged
\* faulty variant: no "except ValueError" clause, so "except Exception" answers
OnValueErrorAsServerError(detail) ==
  [kind |-> "HTTPException", status_code |-> 500,
   detail |-> "An unexpected error occurred"]

OnValueError(detail) ==
  [kind |-> "HTTPException", status_code |-> 400, detail |-> detail]

OnRequestException ==
  [kind |-> "HTTPException", status_code |-> 500,
   detail |-> "Failed to fetch the page"]

OnException ==
  [kind |-> "HTTPException", status_code |-> 500,
   detail |-> "An unexpected error occurred"]

\* WikipediaResponse(...), success=True
ResponseOf(t, c, s, m, l, g, url) ==
  [title |-> t, content |-> c, summary |-> s, metadata |-> m, links |-> l,
   images |-> g, url |-> url, success |-> TRUE,
   message |-> "Content extracted successfully"]

Raise(exc) ==
  /\ pc' = "raised"
  /\ outcome' = exc

\* ---------------------------------------------------------------- actions
\* faulty variant: the URL is not validated before the request is made
ValidateUrlSkipped ==
  /\ pc = "validate"
  /\ pc' = "fetch"
  /\ UNCHANGED <<request, web, http_gets, locals, outcome, prev>>
  /\ UNCHANGED <<cleanVars, batchVars>>

\* if not re.match(...): raise ValueError("Invalid Wikipedia URL format")
ValidateUrl ==
  /\ pc = "validate"
  /\ IF MatchesWikipediaUrl(request.url)
     THEN pc' = "fetch" /\ UNCHANGED outcome
     ELSE Raise(OnValueError("Invalid Wikipedia URL format"))
  /\ UNCHANGED <<request, web, http_gets, locals, prev>>
  /\ UNCHANGED <<cleanVars, batchVars>>

\* response = requests.get(url, ...); response.raise_for_status()
\* a second request of the same client is served the same page
Fetch ==
  /\ pc = "fetch"
  /\ http_gets' = http_gets + 1
  /\ web' \in IF prev = None THEN Web ELSE {prev.web}
  /\ IF web'.status = "ok"
     THEN pc' = "parse" /\ UNCHANGED outcome
     ELSE Raise(OnRequestException)
  /\ UNCHANGED <<request, locals, prev>>
  /\ UNCHANGED <<cleanVars, batchVars>>

\* soup = BeautifulSoup(...); title_elem = soup.find('h1', ...); title = ...
ParseTitle ==
  /\ pc = "parse"
  /\ soup' = web.doc[1]
  /\ title' = TitleOf(web.doc[1])
  /\ pc' = "select"
  /\ UNCHANGED <<request, web, http_gets, content_div, content, summary,
                 metadata, links, images, outcome, prev>>
  /\ UNCHANGED <<cleanVars, batchVars>>

\* content_div = soup.find('div', {'id': 'mw-content-text'})
\* if not content_div: raise ValueError("Could not find content on the page")
SelectContent ==
  /\ pc = "select"
  /\ IF soup.body = None
     THEN Raise(OnValueError("Could not find content on the page"))
          /\ UNCHANGED content_div
     ELSE pc' = "remove" /\ content_div' = soup.body[1] /\ UNCHANGED outcome
  /\ UNCHANGED <<request, web, http_gets, soup, title, content, summary,
                 metadata, links, images, prev>>
  /\ UNCHANGED <<cleanVars, batchVars>>

\* the decompose loop; content_div is a reference into soup
RemoveUnwanted ==
  /\ pc = "remove"
  /\ content_div' = DecomposeAll(content_div, Unwanted)
  /\ soup' = [soup EXCEPT !.body = Some(content_div')]
  /\ pc' = "body"
  /\ UNCHANGED <<request, web, http_gets, title, content, summary,
                 metadata, links, images, outcome, prev>>
  /\ UNCHANGED <<cleanVars, batchVars>>

\* paragraphs = content_div.find_all('p'); content = ...; summary = ...
ExtractBody ==
  /\ pc = "body"
  /\ LET paragraphs == find_all(content_div, {"p"})
     IN  /\ content' = ContentOf(paragraphs)
         /\ summary' = SummaryOf(paragraphs)
  /\ pc' = "metadata"
  /\ UNCHANGED <<request, web, http_gets, soup, title, content_div,
                 metadata, links, images, outcome, prev>>
  /\ UNCHANGED <<cleanVars, batchVars>>

\* metadata = None; if include_metadata: metadata = {...}
\* soup.find('html', {}) is None for a document without an html element
\* and .get on it raises AttributeError, caught by "except Exception"
ExtractMetadata ==
  /\ pc = "metadata"
  /\ IF ~request.include_metadata
     THEN metadata' = None /\ pc' = "links" /\ UNCHANGED outcome
     ELSE IF ~soup.has_html
     THEN Raise(OnException) /\ UNCHANGED metadata
     ELSE metadata' = Some(MetadataOf(soup)) /\ pc' = "links" /\ UNCHANGED outcome
  /\ UNCHANGED <<request, web, http_gets, soup, title, content_div, content,
                 summary, links, images, prev>>
  /\ UNCHANGED <<cleanVars, batchVars>>

\* faulty variant: the link loop appends to metadata['categories'] as well
ExtractLinksIntoCategories ==
  /\ pc = "links"
  /\ links' = IF request.include_links THEN Some(LinksOf(content_div)) ELSE None
  /\ metadata' =
       IF request.include_links /\ metadata # None
       THEN Some([metadata[1] EXCEPT !.categories = @ \o LinksOf(content_div)])
       ELSE metadata
  /\ pc' = "images"
  /\ UNCHANGED <<request, web, http_gets, soup, title, content_div, content,
                 summary, images, outcome, prev>>
  /\ UNCHANGED <<cleanVars, batchVars>>

\* links = None; if include_links: links = [...]
ExtractLinks ==
  /\ pc = "links"
  /\ links' = IF request.include_links THEN Some(LinksOf(content_div)) ELSE None
  /\ pc' = "images"
  /\ UNCHANGED <<request, web, http_gets, soup, title, content_div, content,
                 summary, metadata, images, outcome, prev>>
  /\ UNCHANGED <<cleanVars, batchVars>>

\* images = None; if include_images: images = [...]
ExtractImages ==
  /\ pc = "images"
  /\ images' = IF request.include_images THEN Some(ImagesOf(content_div)) ELSE None
  /\ pc' = "respond"
  /\ UNCHANGED <<request, web, http_gets, soup, title, content_div, content,
                 summary, metadata, links, outcome, prev>>
  /\ UNCHANGED <<cleanVars, batchVars>>

\* return WikipediaResponse(...)
Respond ==
  /\ pc = "respond"
  /\ outcome' =
       [kind |-> "response", status_code |-> 200,
        body |-> ResponseOf(title, content, summary, metadata, links, images,
                            request.url)]
  /\ pc' = "returned"
  /\ UNCHANGED <<request, web, http_gets, locals, prev>>
  /\ UNCHANGED <<cleanVars, batchVars>>

\* the same client posts a second request for the same URL with one of
\* include_links / include_images switched on (test_api.py posts the same
\* URL again with other flags)
Rerun ==
  /\ pc \in {"returned", "raised"}
  /\ prev = None
  /\ prev' = [request |-> request, web |-> web, outcome |-> outcome]
  /\ request' \in
       { [request EXCEPT !.include_links = TRUE],
         [request EXCEPT !.include_images = TRUE] } \ {request}
  /\ pc' = "validate"
  /\ http_gets' = 0
  /\ web' = None
  /\ outcome' = None
  /\ soup' = Unbound /\ title' = Unbound /\ content_div' = Unbound
  /\ content' = Unbound /\ summary' = Unbound /\ metadata' = Unbound
  /\ links' = Unbound /\ images' = Unbound
  /\ UNCHANGED <<cleanVars, batchVars>>

\* ------------------------------------------------ inputs of clean_text
Pieces ==
  { <<"a">>, <<" ">>, <<"\n">>, <<"[">>, <<"]">>, <<"1">>, <<"[", "1", "]">>,
    <<"e", "d", "i", "t">> }

Texts == { Flatten(ps) : ps \in UNION { [1..n -> Pieces] : n \in 0..MaxPieces } }

\* cleaned = clean_text(text)
Normalize ==
  /\ clean_pc = "input"
  /\ cleaned' = clean_text(text)
  /\ clean_pc' = "cleaned"
  /\ UNCHANGED <<text, recleaned>>
  /\ UNCHANGED <<runVars, batchVars>>

\* recleaned = clean_text(cleaned)
NormalizeAgain ==
  /\ clean_pc = "cleaned"
  /\ recleaned' = clean_text(cleaned)
  /\ clean_pc' = "recleaned"
  /\ UNCHANGED <<text, cleaned>>
  /\ UNCHANGED <<runVars, batchVars>>

\* ------------------------------------------------- the batch client
BatchUrls ==
  { U_https \o <<"e", "n">> \o U_wp \o U_wiki,
    U_http \o <<"d", "e">> \o U_wp \o U_wiki,
    U_https \o <<"e", "n">> \o U_wp \o U_w }

UrlLists == UNION { [1..n -> BatchUrls] : n \in 0..MaxUrls }

\* what POST /scrape can answer for a URL: the record of a successful
\* extraction, an HTTPException of extract_wikipedia_content, a rejected
\* request body, or no answer at all
Replies(url) ==
  (IF MatchesWikipediaUrl(url)
   THEN { [status |-> 200,
           body |-> Some(ResponseOf(t, <<>>, <<>>, None, None, None, url))] :
          t \in {UnknownTitle, <<"T">>} }
        \cup { [status |-> 500, body |-> None] }
   ELSE { [status |-> 422, body |-> None] })
  \cup { [status |-> 400, body |-> None], [status |-> 0, body |-> None] }

\* scrape_page: post, raise_for_status, json
scrape_page(url, reply) ==
  IF reply.status = 0 THEN [ok |-> FALSE, value |-> "ConnectionError"]
  ELSE IF reply.status >= 400 THEN [ok |-> FALSE, value |-> "HTTPError"]
  ELSE [ok |-> TRUE, value |-> reply.body[1]]

\* faulty variant: "except requests.HTTPError", a connection failure propagates
CaughtHttpErrorOnly(exc) == exc = "HTTPError"

\* "except Exception as e" catches whatever scrape_page raises
Caught(exc) == exc \in {"ConnectionError", "HTTPError"}

\* the entry appended for a failed URL
FailureEntry(url, exc) == [url |-> url, success |-> FALSE, error |-> exc]

\* one iteration of "for url in urls"
ScrapeOne ==
  /\ batch_pc = "loop"
  /\ Len(results) < Len(urls)
  /\ LET url == urls[Len(results) + 1]
     IN  \E reply \in Replies(url) :
           LET r == scrape_page(url, reply)
           IN  /\ server' = Append(server, [url |-> url, reply |-> reply])
               /\ IF r.ok
                  THEN results' = Append(results, r.value) /\ UNCHANGED batch_pc
                  ELSE IF Caught(r.value)
                  THEN /\ results' = Append(results, FailureEntry(url, r.value))
                       /\ UNCHANGED batch_pc
                  ELSE batch_pc' = "raised" /\ UNCHANGED results
  /\ UNCHANGED urls
  /\ UNCHANGED <<runVars, cleanVars>>

\* return results
BatchReturn ==
  /\ batch_pc = "loop"
  /\ Len(results) = Len(urls)
  /\ batch_pc' = "done"
  /\ UNCHANGED <<urls, server, results>>
  /\ UNCHANGED <<runVars, cleanVars>>

\* -------------------------------------------------------- specifications
IdleRun ==
  /\ request = None /\ web = None /\ pc = "idle" /\ http_gets = 0
  /\ soup = Unbound /\ title = Unbound /\ content_div = Unbound
  /\ content = Unbound /\ summary = Unbound /\ metadata = Unbound
  /\ links = Unbound /\ images = Unbound
  /\ outcome = None /\ prev = None

IdleClean ==
  text = <<>> /\ cleaned = <<>> /\ recleaned = <<>> /\ clean_pc = "idle"

IdleBatch ==
  urls = <<>> /\ server = <<>> /\ results = <<>> /\ batch_pc = "idle"

\* one call of extract_wikipedia_content
Init ==
  /\ request \in Requests
  /\ web = None /\ pc = "validate" /\ http_gets = 0
  /\ soup = Unbound /\ title = Unbound /\ content_div = Unbound
  /\ content = Unbound /\ summary = Unbound /\ metadata = Unbound
  /\ links = Unbound /\ images = Unbound
  /\ outcome = None /\ prev = None
  /\ IdleClean /\ IdleBatch

Next ==
  \/ ValidateUrl
  \/ Fetch
  \/ ParseTitle
  \/ SelectContent
  \/ RemoveUnwanted
  \/ ExtractBody
  \/ ExtractMetadata
  \/ ExtractLinks
  \/ ExtractImages
  \/ Respond

Spec == Init /\ [][Next]_vars

\* two calls for the same page that differ in one of the two flags
NextPair == Next \/ Rerun

SpecPair == Init /\ [][NextPair]_vars

\* clean_text applied to a text, and again to its result
InitClean ==
  /\ text \in Texts /\ cleaned = <<>> /\ recleaned = <<>> /\ clean_pc = "input"
  /\ IdleRun /\ IdleBatch

NextClean == Normalize \/ NormalizeAgain

SpecClean == InitClean /\ [][NextClean]_vars

\* one call of scrape_multiple_pages
InitBatch ==
  /\ urls \in UrlLists /\ server = <<>> /\ results = <<>> /\ batch_pc = "loop"
  /\ IdleRun /\ IdleClean

NextBatch == ScrapeOne \/ BatchReturn

SpecBatch == InitBatch /\ [][NextBatch]_vars

\* ------------------------------------------------------------ properties
Terminal == pc \in {"returned", "raised"}

\* the page the run fetched
Fetched == web # None /\ web.status = "ok"

Page == web.doc[1]

\* the table elements of the fetched content region, in document order
PageTables == find_all(Page.body[1], {"table"})

\* C1: in every successful extraction each optional field of the result
\* (metadata, links, images, tables) is null/absent exactly when its flag
\* was false, and present, never null, when the flag was true.
C1_OptionalFieldsFollowFlags ==
  pc = "returned" =>
    LET b == outcome.body
    IN  /\ (b.metadata = None) <=> ~request.include_metadata
        /\ (b.links = None) <=> ~request.include_links
        /\ (b.images = None) <=> ~request.include_images
        /\ ("tables" \notin DOMAIN b \/ b.tables = None)
             <=> ~request.include_tables

\* C2: a fetched document without a content region ends in the
\* content-not-found error for every flag combination and with or without a
\* title node; the run never gets past the content lookup and never returns
\* a result record.
C2_MissingContentIsContentNotFound ==
  (Fetched /\ Page.body = None) =>
    /\ pc \in {"parse", "select", "raised"}
    /\ pc = "raised" =>
         outcome = [kind |-> "HTTPException", status_code |-> 400,
                    detail |-> "Could not find content on the page"]
    /\ pc # "raised" => outcome = None

C2_Witness ==
  /\ pc = "raised" /\ Fetched /\ Page.body = None /\ Page.title = None
  /\ request.include_metadata /\ request.include_links
  /\ request.include_images /\ request.include_tables
  /\ outcome.status_code = 400

\* C3: a document with a content region and no title node is extracted
\* successfully, with the title "Unknown Title".
C3_MissingTitleStillSucceeds ==
  (Terminal /\ Fetched /\ Page.title = None /\ Page.body # None) =>
    /\ pc = "returned"
    /\ outcome.body.success
    /\ outcome.body.title = UnknownTitle

\* C4: a URL that does not match the Wikipedia article pattern is rejected
\* before any HTTP request is issued and before any HTML is parsed, and the
\* rejection is the client error 400.
C4_BadUrlRejectedBeforeFetch ==
  ~MatchesWikipediaUrl(request.url) =>
    /\ http_gets = 0 /\ web = None /\ soup = Unbound
    /\ pc \in {"validate", "raised"}
    /\ pc = "raised" =>
         outcome = [kind |-> "HTTPException", status_code |-> 400,
                    detail |-> "Invalid Wikipedia URL format"]

C4_Witness ==
  /\ pc = "raised" /\ ~MatchesWikipediaUrl(request.url)
  /\ request.url # <<>> /\ outcome.status_code = 400 /\ http_gets = 0

\* C5: with includeTables true the tables are captured before they are
\* deleted from the content region, so every table of the fetched content
\* region appears in the result's tables, in document order.
C5_TablesCapturedBeforeRemoval ==
  (pc = "returned" /\ request.include_tables /\ PageTables # <<>>) =>
    /\ "tables" \in DOMAIN outcome.body
    /\ outcome.body.tables # None
    /\ Len(outcome.body.tables[1]) = Len(PageTables)
    /\ \A k \in 1..Len(PageTables) :
         outcome.body.tables[1][k].caption
           = Some(clean_text(PageTables[k].caption[1]))

\* C6: every table of the page is emitted with all of its body rows, and
\* every emitted row has exactly as many cells as the table has headers
\* (short rows padded, long rows truncated, no row dropped, no error).
C6_EmittedRowsMatchHeaders ==
  (Terminal /\ Fetched /\ Page.body # None /\ request.include_tables
     /\ PageTables # <<>>
     /\ (request.include_metadata => Page.has_html)) =>
    /\ pc = "returned"
    /\ "tables" \in DOMAIN outcome.body
    /\ \A k \in 1..Len(PageTables) :
         LET t == outcome.body.tables[1][k]
         IN  /\ Len(t.rows) = Len(PageTables[k].rows) - 1
             /\ \A r \in 1..Len(t.rows) : Len(t.rows[r]) = Len(t.headers)

\* the text holds a bracketed all-digit marker
HasCitation(s) == \E k \in 1..Len(s) : CitationAt(Drop(s, k - 1))

\* C7: clean_text is idempotent, clean_text(clean_text(s)) = clean_text(s).
C7_CleanTextIdempotent ==
  clean_pc = "recleaned" => recleaned = cleaned

\* C8: the output of clean_text on a text holding a citation marker
\* [digits] holds no bracketed all-digit marker.
C8_NoCitationMarkerLeft ==
  (clean_pc \in {"cleaned", "recleaned"} /\ HasCitation(text)) =>
    ~HasCitation(cleaned)

\* C9: a run that differs from the previous run on the same document only
\* in includeLinks (or only in includeImages) ends the same way and, when
\* both return a result, with the same title, content, summary and metadata
\* (and the same value of the optional field whose flag did not change).
C9_LinksImagesIndependent ==
  (prev # None /\ Terminal) =>
    /\ outcome.kind = prev.outcome.kind
    /\ pc = "raised" => outcome = prev.outcome
    /\ pc = "returned" =>
         LET a == prev.outcome.body
             b == outcome.body
         IN  /\ b.title = a.title /\ b.content = a.content
             /\ b.summary = a.summary /\ b.metadata = a.metadata
             /\ DOMAIN b = DOMAIN a
             /\ request.include_links = prev.request.include_links
                  => b.links = a.links
             /\ request.include_images = prev.request.include_images
                  => b.images = a.images

C9_Witness ==
  /\ prev # None /\ pc = "returned"
  /\ request.include_links /\ ~prev.request.include_links
  /\ request.include_metadata
  /\ outcome.body.links # Some(<<>>) /\ prev.outcome.body.links = None
  /\ outcome.body.content # <<>> /\ outcome.body.summary # <<>>

\* C10: scrape_multiple_pages never raises; its results hold one entry per
\* URL attempted, in input order, every URL is posted in turn whatever the
\* earlier ones did, a failed URL yields {url, success: False, error} and a
\* served URL yields the server's record; at the end there is one entry per
\* input URL.
C10_BatchIsolatesFailures ==
  /\ batch_pc # "raised"
  /\ Len(results) <= Len(urls)
  /\ Len(server) = Len(results)
  /\ \A k \in 1..Len(results) :
       /\ server[k].url = urls[k]
       /\ IF server[k].reply.status = 200
          THEN results[k] = server[k].reply.body[1]
               /\ results[k].success /\ results[k].url = urls[k]
          ELSE ~results[k].success /\ results[k].url = urls[k]
               /\ DOMAIN results[k] = {"url", "success", "error"}
  /\ batch_pc = "done" => Len(results) = Len(urls)

C10_Witness ==
  /\ batch_pc = "done" /\ Len(urls) = MaxUrls
  /\ ~results[1].success /\ results[2].success /\ ~results[Len(urls)].success
  /\ server[1].reply.status = 0

\* the run has assigned content and summary
BodyDone == pc \in {"metadata", "links", "images", "respond", "returned"}

\* the paragraph elements of the working content region, in document order
Paragraphs == find_all(content_div, {"p"})

\* the normalized text of each element of ps
CleanTexts(ps) == [k \in 1..Len(ps) |-> clean_text(get_text(ps[k]))]

\* the segments of a text joined with a double line break (a normalized
\* text holds no line break, so the split is unique)
RECURSIVE SplitFrom(_, _)
SplitFrom(s, i) ==
  LET breaks == { j \in i..(Len(s) - 1) : s[j] = "\n" /\ s[j + 1] = "\n" }
  IN  IF breaks = {} THEN << SubSeq(s, i, Len(s)) >>
      ELSE LET j == CHOOSE b \in breaks : \A c \in breaks : b <= c
           IN  << SubSeq(s, i, j - 1) >> \o SplitFrom(s, j + 2)

Segments(s) == IF s = <<>> THEN <<>> ELSE SplitFrom(s, 1)

\* C11: content is the double-line-break join of the normalized texts of
\* exactly the paragraphs whose normalized text is non-empty, in document
\* order, so content has no empty segment.
C11_ContentJoinsNonEmptyParagraphs ==
  BodyDone =>
    /\ content = Join(SelectSeq(CleanTexts(Paragraphs), LAMBDA t : t # <<>>))
    /\ \A k \in 1..Len(Segments(content)) : Segments(content)[k] # <<>>

\* the texts longer than the summary threshold
Meaningful(texts) == SelectSeq(texts, LAMBDA t : Len(t) > SummaryMinLen)

\* C12 (as claimed): summary joins the texts longer than 50 characters of
\* the first three paragraphs that survive the empty-paragraph discard used
\* for content.
C12_SummaryFromSurvivingParagraphs ==
  BodyDone =>
    LET surviving == SelectSeq(Paragraphs, LAMBDA p : strip(get_text(p)) # <<>>)
    IN  summary = Join(Meaningful(CleanTexts(Take(surviving, SummaryParagraphs))))

\* C12 (amended): summary is built from the first three paragraph elements
\* of the content region as found, empty ones included: its segments are,
\* in order, the normalized texts longer than 50 characters among them;
\* there are at most three, each is a segment of content, and summary is ""
\* when none qualifies.
C12_SummaryFromFirstThreeElements ==
  BodyDone =>
    LET segs == Segments(summary)
        first == CleanTexts(Take(Paragraphs, SummaryParagraphs))
    IN  /\ Len(segs) <= SummaryParagraphs
        /\ segs = Meaningful(first)
        /\ \A k \in 1..Len(segs) :
             /\ Len(segs[k]) > SummaryMinLen
             /\ \E j \in 1..Len(Segments(content)) : Segments(content)[j] = segs[k]
        /\ Meaningful(first) = <<>> => summary = <<>>

C12_Witness ==
  /\ BodyDone
  /\ Len(Paragraphs) > SummaryParagraphs
  /\ \A k \in 1..SummaryParagraphs : strip(get_text(Paragraphs[k])) = <<>>
  /\ Len(clean_text(get_text(Paragraphs[SummaryParagraphs + 1]))) > SummaryMinLen
  /\ summary = <<>>
  /\ content # <<>>

\* scheme and host of an article URL: what precedes the third slash
OriginOf(url) ==
  LET slashes == { i \in 1..Len(url) : url[i] = "/" }
      third == CHOOSE i \in slashes : Cardinality({ j \in slashes : j < i }) = 2
  IN  SubSeq(url, 1, third - 1)

\* the hrefs of the anchors of a region that point to an article and not to
\* a special page, in document order
ArticleHrefs(region) ==
  LET anchors ==
        SelectSeq(find_all(region, {"a"}),
                  LAMBDA a : /\ a.href # None
                             /\ StartsWith(a.href[1], WikiPrefix)
                             /\ ~StartsWith(a.href[1], SpecialPrefix))
  IN  [k \in 1..Len(anchors) |-> anchors[k].href[1]]

\* C13: with includeLinks true, links holds, in document order, one URL for
\* every anchor of the fetched content region whose href begins with /wiki/
\* and not with /wiki/Special:, and nothing else; each URL is the href
\* prefixed with the scheme and host of the source URL.  (Stated for the
\* pages none of whose article anchors lies inside an element the noise
\* removal deletes.)
C13_LinksUseSourceDomain ==
  (/\ pc = "returned" /\ request.include_links
   /\ ArticleHrefs(Page.body[1])
        = ArticleHrefs(DecomposeAll(Page.body[1], Unwanted))) =>
    LET hrefs == ArticleHrefs(Page.body[1])
    IN  outcome.body.links
          = Some([k \in 1..Len(hrefs) |-> OriginOf(request.url) \o hrefs[k]])

\* C14: with includeMetadata true the metadata step never fails: every
\* fetched document with a content region, also one without an html element
\* or without a lang attribute, is extracted successfully, with language the
\* declared lang or "unknown", last_modified and page_id null when their
\* markers are absent, and categories a sequence, never null.
C14_MetadataNeverFails ==
  (Terminal /\ Fetched /\ Page.body # None /\ request.include_metadata) =>
    /\ pc = "returned"
    /\ outcome.body.metadata # None
    /\ LET m == outcome.body.metadata[1]
       IN  /\ m.language = IF Page.lang # None THEN Page.lang[1] ELSE Unknown
           /\ Page.lastmod = None => m.last_modified = None
           /\ Page.page_id = None => m.page_id = None
           /\ m.categories # None \/ Page.categories = <<>>
           /\ Len(m.categories) = Len(Page.categories)

====
